---- MODULE Spec2Model ----
(***************************************************************************)
(* everytime.js: lazy sequences of time points (every(5).seconds, ...),    *)
(* their combinators filter / map / take, and the setTimeout driver loop   *)
(* scheduleIterator that invokes an asynchronous action at each point.     *)
(*                                                                         *)
(* A Dayjs instant is modelled as an integer number of clock units; dayjs  *)
(* values are immutable (add returns a new instance), so integer addition  *)
(* models Dayjs.add and integer subtraction models Dayjs.diff.             *)
(***************************************************************************)
EXTENDS Integers, Sequences, FiniteSets, TLC

\* ------------------------------------------------------------------ bounds
MaxClock == 4      \* the clock runs 0..MaxClock
MaxStep == 2       \* steps of the periodic sequences: 0..MaxStep
MaxTake == 2       \* take(n) for n in 0..MaxTake (and the rejected n below)
MaxPulls == 3      \* points taken from one run's / the probe's iterator
MaxScan == 8       \* upstream points one filter next() examines before the
                   \* loop is known never to end (see FilteredLoop)
MaxShortClock == 2  \* the clock runs 0..MaxShortClock where two parties act
MaxWhenLen == 5    \* the strings handed to at() have 0..MaxWhenLen characters

\* ------------------------------------------------- sequences (Iterable<Dayjs>)
\* new EverytimeWithoutStart(step)
EverytimeWithoutStart(step) == [cls |-> "EverytimeWithoutStart", step |-> step]

\* new EverytimeWithStart(start, step); also EverytimeWithoutStart.startingAt
EverytimeWithStart(start, step) ==
    [cls |-> "EverytimeWithStart", start |-> start, step |-> step]

\* Everytime.filter: new FilteredEverytime(this, predicate)
FilteredEverytime(upstream, predicate) ==
    [cls |-> "FilteredEverytime", upstream |-> upstream, predicate |-> predicate]

\* Everytime.map: new MappedEverytime(this, f)
MappedEverytime(upstream, f) ==
    [cls |-> "MappedEverytime", upstream |-> upstream, f |-> f]

\* A faulty variant of TakeArgumentOk: the Number.isInteger test is missing.
TakeArgumentOkNoIntegerTest(n) == ~(n.num < 0)

\* n as TakeEverytime's constructor accepts it: not negative, an integer.
\* A number is modelled as [num, den]: the value num/den with den in {1, 2}
\* (den = 2 only with an odd num, so den = 1 exactly for the integers).
TakeArgumentOk(n) == ~(n.num < 0) /\ n.den = 1

\* Everytime.take: new TakeEverytime(this, n). The constructor throws for a
\* negative or non-integral n: the result is then the thrown error.
TakeEverytime(upstream, n) ==
    IF TakeArgumentOk(n)
    THEN [cls |-> "TakeEverytime", upstream |-> upstream, n |-> n]
    ELSE [cls |-> "Error"]

\* An array of Dayjs handed to schedule (README, "Schedule custom times").
ArrayOf(items) == [cls |-> "Array", items |-> items]

\* The predicates and transforms a caller passes to filter and map.
\*   lt2: t < 2 (README: datetime.hour() < 10); floor2: t rounded down to a
\*   multiple of 2 (README: datetime.startOf("hour")); mirror: 3 - t, which
\*   is not monotonic.
Predicates == {"always", "never", "even", "lt2"}
Transforms == {"plus1", "floor2", "mirror"}

ApplyPredicate(p, t) ==
    CASE p = "always" -> TRUE
      [] p = "never" -> FALSE
      [] p = "even" -> t % 2 = 0
      [] p = "lt2" -> t < 2

ApplyTransform(f, t) ==
    CASE f = "plus1" -> t + 1
      [] f = "floor2" -> t - (t % 2)
      [] f = "mirror" -> 3 - t

\* ------------------------------------------------------ iterators
\* new TimeIterator(start, step): currentValue is undefined (<<>>) at first.
TimeIterator(start, step) ==
    [cls |-> "TimeIterator", start |-> start, step |-> step,
     currentValue |-> <<>>]

\* A generator object as a call of a generator method *[Symbol.iterator]()
\* returns it: suspended at its start, nothing of the body has run, so the
\* upstream is not opened yet (up = <<>>).
Generator(self) ==
    [cls |-> "Generator", self |-> self, gstate |-> "suspendedStart",
     up |-> <<>>, i |-> 0]

\* sequence[Symbol.iterator]() at clock value now.
OpenIterator(seq, now) ==
    CASE seq.cls = "EverytimeWithStart" -> TimeIterator(seq.start, seq.step)
      [] seq.cls = "EverytimeWithoutStart" -> TimeIterator(now, seq.step)
      [] seq.cls = "Array" ->
            [cls |-> "ArrayIterator", items |-> seq.items, index |-> 0]
      [] OTHER -> Generator(seq)

\* The result of one it.next(): the iterator afterwards, done / value, and
\*   hang    the call never returns (a filter loop that never finds a point);
\*   ups     the points this call obtained from the iterator's own upstream;
\*   upDone  the upstream reported completion during this call;
\*   evals   the points this call passed to the predicate or the transform.
Result(it, done, value, ups, upDone, evals) ==
    [it |-> it, done |-> done, value |-> value, hang |-> FALSE,
     ups |-> ups, upDone |-> upDone, evals |-> evals]

Hang(it, ups, evals) ==
    [it |-> it, done |-> FALSE, value |-> 0, hang |-> TRUE,
     ups |-> ups, upDone |-> FALSE, evals |-> evals]

\* A faulty variant of TimeIteratorNext: the first call adds the step too.
TimeIteratorNextStepsFirst(it) ==
    LET cv == IF it.currentValue = <<>>
              THEN it.start + it.step
              ELSE it.currentValue[1] + it.step
    IN Result([it EXCEPT !.currentValue = <<cv>>], FALSE, cv, <<>>, FALSE, <<>>)

\* TimeIterator.next()
TimeIteratorNext(it) ==
    LET cv == IF it.currentValue = <<>>
              THEN it.start
              ELSE it.currentValue[1] + it.step
    IN Result([it EXCEPT !.currentValue = <<cv>>], FALSE, cv, <<>>, FALSE, <<>>)

\* next() of an array's iterator
ArrayIteratorNext(it) ==
    IF it.index < Len(it.items)
    THEN Result([it EXCEPT !.index = it.index + 1], FALSE,
                it.items[it.index + 1], <<>>, FALSE, <<>>)
    ELSE Result(it, TRUE, 0, <<>>, FALSE, <<>>)

\* The upstream iterator a generator's for-of loop reads: opened when the
\* body starts running (the first next()), the same one afterwards.
UpstreamOf(g, now) ==
    IF g.gstate = "suspendedStart"
    THEN OpenIterator(g.self.upstream, now)
    ELSE g.up[1]

Closed(g) == [g EXCEPT !.gstate = "closed", !.up = <<>>]

RECURSIVE IteratorNext(_, _)
RECURSIVE FilteredLoop(_, _, _, _, _)

\* A faulty variant of FilteredLoop: the test is inverted, if(!predicate).
FilteredLoopInverted(g, now, fuel, ups, evals) ==
    LET r == IteratorNext(UpstreamOf(g, now), now)
        g1 == [g EXCEPT !.gstate = "suspendedYield", !.up = <<r.it>>]
        ups1 == Append(ups, r.value)
        evals1 == Append(evals, r.value)
    IN IF r.hang THEN Hang(g1, ups, evals)
       ELSE IF r.done THEN Result(Closed(g), TRUE, 0, ups, TRUE, evals)
       ELSE IF ~ApplyPredicate(g.self.predicate, r.value)
            THEN Result(g1, FALSE, r.value, ups1, FALSE, evals1)
       ELSE IF fuel = 0 THEN Hang(g1, ups1, evals1)
       ELSE FilteredLoop(g1, now, fuel - 1, ups1, evals1)

\* FilteredEverytime[Symbol.iterator]: one next() runs the for-of loop until
\* a point satisfies the predicate (yield) or the upstream is done. A loop
\* that examined MaxScan + 1 points without a match never ends: the
\* predicates and sequences of the model are constant or periodic from there.
FilteredLoop(g, now, fuel, ups, evals) ==
    LET r == IteratorNext(UpstreamOf(g, now), now)
        g1 == [g EXCEPT !.gstate = "suspendedYield", !.up = <<r.it>>]
        ups1 == Append(ups, r.value)
        evals1 == Append(evals, r.value)
    IN IF r.hang THEN Hang(g1, ups, evals)
       ELSE IF r.done THEN Result(Closed(g), TRUE, 0, ups, TRUE, evals)
       ELSE IF ApplyPredicate(g.self.predicate, r.value)
            THEN Result(g1, FALSE, r.value, ups1, FALSE, evals1)
       ELSE IF fuel = 0 THEN Hang(g1, ups1, evals1)
       ELSE FilteredLoop(g1, now, fuel - 1, ups1, evals1)

FilteredNext(g, now) == FilteredLoop(g, now, MaxScan, <<>>, <<>>)

\* A faulty variant of MappedNext: yield timestep, f is not applied.
MappedNextWithoutF(g, now) ==
    LET r == IteratorNext(UpstreamOf(g, now), now)
        g1 == [g EXCEPT !.gstate = "suspendedYield", !.up = <<r.it>>]
    IN IF r.hang THEN Hang(g1, <<>>, <<>>)
       ELSE IF r.done THEN Result(Closed(g), TRUE, 0, <<>>, TRUE, <<>>)
       ELSE Result(g1, FALSE, r.value, <<r.value>>, FALSE, <<>>)

\* MappedEverytime[Symbol.iterator]: yield this.f(timestep) per upstream point
MappedNext(g, now) ==
    LET r == IteratorNext(UpstreamOf(g, now), now)
        g1 == [g EXCEPT !.gstate = "suspendedYield", !.up = <<r.it>>]
    IN IF r.hang THEN Hang(g1, <<>>, <<>>)
       ELSE IF r.done THEN Result(Closed(g), TRUE, 0, <<>>, TRUE, <<>>)
       ELSE Result(g1, FALSE, ApplyTransform(g.self.f, r.value),
                   <<r.value>>, FALSE, <<r.value>>)

\* A faulty variant of TakeNext: i++ <= this.n, one point too many.
TakeNextOffByOne(g, now) ==
    LET r == IteratorNext(UpstreamOf(g, now), now)
        g1 == [g EXCEPT !.gstate = "suspendedYield", !.up = <<r.it>>,
                        !.i = g.i + 1]
    IN IF r.hang THEN Hang(g1, <<>>, <<>>)
       ELSE IF r.done THEN Result(Closed(g), TRUE, 0, <<>>, TRUE, <<>>)
       ELSE IF g.i * g.self.n.den <= g.self.n.num
            THEN Result(g1, FALSE, r.value, <<r.value>>, FALSE, <<>>)
       ELSE Result(Closed(g), TRUE, 0, <<r.value>>, FALSE, <<>>)

\* TakeEverytime[Symbol.iterator]: the loop first takes the next upstream
\* point, then tests i++ < this.n: yield, or break (the generator returns).
TakeNext(g, now) ==
    LET r == IteratorNext(UpstreamOf(g, now), now)
        g1 == [g EXCEPT !.gstate = "suspendedYield", !.up = <<r.it>>,
                        !.i = g.i + 1]
    IN IF r.hang THEN Hang(g1, <<>>, <<>>)
       ELSE IF r.done THEN Result(Closed(g), TRUE, 0, <<>>, TRUE, <<>>)
       ELSE IF g.i * g.self.n.den < g.self.n.num
            THEN Result(g1, FALSE, r.value, <<r.value>>, FALSE, <<>>)
       ELSE Result(Closed(g), TRUE, 0, <<r.value>>, FALSE, <<>>)

\* A generator object's next(): a closed generator reports done.
GeneratorNext(g, now) ==
    IF g.gstate = "closed" THEN Result(g, TRUE, 0, <<>>, FALSE, <<>>)
    ELSE CASE g.self.cls = "FilteredEverytime" -> FilteredNext(g, now)
           [] g.self.cls = "MappedEverytime" -> MappedNext(g, now)
           [] g.self.cls = "TakeEverytime" -> TakeNext(g, now)

\* it.next() at clock value now
IteratorNext(it, now) ==
    CASE it.cls = "TimeIterator" -> TimeIteratorNext(it)
      [] it.cls = "ArrayIterator" -> ArrayIteratorNext(it)
      [] it.cls = "Generator" -> GeneratorNext(it, now)


\* ------------------------------------------------- building a sequence
\* A recipe is the expression a caller writes: a base sequence and the
\* combinator calls made on it, left to right (every.second.filter(p).take(2)).
Steps == 0..MaxStep
Number(num, den) == [num |-> num, den |-> den]
TakeArgs == {Number(k, 1) : k \in -1..MaxTake} \cup {Number(3, 2)}

Filter(p) == [op |-> "filter", arg |-> p]
Map(f) == [op |-> "map", arg |-> f]
Take(n) == [op |-> "take", arg |-> n]
Recipe(base, ops) == [base |-> base, ops |-> ops]

StartingAt(start) == [op |-> "startingAt", arg |-> start]

\* One call seq.filter(p) / seq.map(f) / seq.take(n) / seq.startingAt(start),
\* the last one on a sequence from now only.
ApplyOp(seq, c) ==
    CASE c.op = "filter" -> FilteredEverytime(seq, c.arg)
      [] c.op = "map" -> MappedEverytime(seq, c.arg)
      [] c.op = "take" -> TakeEverytime(seq, c.arg)
      [] c.op = "startingAt" -> EverytimeWithStart(c.arg, seq.step)

\* The value of the whole expression: a throwing call ends the evaluation.
RECURSIVE ApplyOps(_, _)
ApplyOps(seq, ops) ==
    IF ops = <<>> THEN seq
    ELSE LET s1 == ApplyOp(seq, Head(ops))
         IN IF s1.cls = "Error" THEN s1 ELSE ApplyOps(s1, Tail(ops))

Build(rec) == ApplyOps(rec.base, rec.ops)

\* An iterator object handed to schedule as the iterable (array.values(), a
\* generator object): its [Symbol.iterator]() returns the object itself.
IteratorObject == [cls |-> "IteratorObject"]
SharedItems == <<0, 1, 2>>

\* ------------------------------------------------- every.day.at("h:mm")
\* Instants are milliseconds; day 0 begins at 0 in a zone whose clock is
\* never set forward or back.
MILLISECONDS == 1
SECONDS == 1000 * MILLISECONDS
MINUTES == 60 * SECONDS
HOURS == 60 * MINUTES
DAYS == 24 * HOURS
OTHER_ == 2

\* new DayWithoutStart(step): an EverytimeWithoutStart that has at().
DayWithoutStart(step) == EverytimeWithoutStart(step)

\* A string is the sequence of its characters.
DigitChars == <<"0", "1", "2", "3", "4", "5", "6", "7", "8", "9">>
IsDigit(c) == \E d \in 1..Len(DigitChars) : DigitChars[d] = c
DigitValue(c) == (CHOOSE d \in 1..Len(DigitChars) : DigitChars[d] = c) - 1

\* Number(str) of a string of digits
RECURSIVE NumberOf(_)
NumberOf(str) ==
    IF str = <<>> THEN 0
    ELSE 10 * NumberOf(SubSeq(str, 1, Len(str) - 1)) + DigitValue(str[Len(str)])

\* The whole of when is n digits, a colon and two digits.
MatchWithHours(when, n) ==
    /\ Len(when) = n + 3
    /\ \A i \in 1..n : IsDigit(when[i])
    /\ when[n + 1] = ":"
    /\ IsDigit(when[n + 2])
    /\ IsDigit(when[n + 3])

\* when.match(/^(\d\d?):(\d\d)$/): the two groups, or <<>> for null. The
\* optional digit is tried first.
Match(when) ==
    IF MatchWithHours(when, 2)
    THEN <<SubSeq(when, 1, 2), SubSeq(when, 4, 5)>>
    ELSE IF MatchWithHours(when, 1)
    THEN <<SubSeq(when, 1, 1), SubSeq(when, 3, 4)>>
    ELSE <<>>

\* t.startOf("day")
StartOfDay(t) == t - (t % DAYS)

ParseError == [cls |-> "Error"]

\* A faulty variant of At: a time of day that has passed today stays today.
AtKeepsToday(self, when, now) ==
    LET match == Match(when)
        hours == NumberOf(match[1])
        minutes == NumberOf(match[2])
        today == StartOfDay(now) + hours * HOURS + minutes * MINUTES
    IN IF match = <<>> THEN [seq |-> ParseError, reads |-> 0]
       ELSE IF hours >= 24 \/ minutes >= 60
       THEN [seq |-> ParseError, reads |-> 0]
       ELSE [seq |-> EverytimeWithStart(today, self.step), reads |-> 2]

\* A faulty variant of At: the range tests are hours > 24, minutes > 60.
AtAcceptsTwentyFour(self, when, now) ==
    LET match == Match(when)
        hours == NumberOf(match[1])
        minutes == NumberOf(match[2])
        today == StartOfDay(now) + hours * HOURS + minutes * MINUTES
        start == IF today - now < 0 THEN today + 1 * DAYS ELSE today
    IN IF match = <<>> THEN [seq |-> ParseError, reads |-> 0]
       ELSE IF hours > 24 \/ minutes > 60
       THEN [seq |-> ParseError, reads |-> 0]
       ELSE [seq |-> EverytimeWithStart(start, self.step), reads |-> 2]

\* A variant of At that calls dayjs() no more than the other constructors:
\* the time of day is taken on day 0.
AtWithoutClock(self, when, now) ==
    LET match == Match(when)
        hours == NumberOf(match[1])
        minutes == NumberOf(match[2])
    IN IF match = <<>> THEN [seq |-> ParseError, reads |-> 0]
       ELSE IF hours >= 24 \/ minutes >= 60
       THEN [seq |-> ParseError, reads |-> 0]
       ELSE [seq |-> EverytimeWithStart(hours * HOURS + minutes * MINUTES,
                                        self.step),
             reads |-> 0]

\* self.at(when) called when the clock is now: the sequence returned, or the
\* error thrown, and the number of calls of dayjs() made.
At(self, when, now) ==
    LET match == Match(when)
        hours == NumberOf(match[1])
        minutes == NumberOf(match[2])
        today == StartOfDay(now) + hours * HOURS + minutes * MINUTES
        start == IF today - now < 0 THEN today + 1 * DAYS ELSE today
    IN IF match = <<>> THEN [seq |-> ParseError, reads |-> 0]
       ELSE IF hours >= 24 \/ minutes >= 60
       THEN [seq |-> ParseError, reads |-> 0]
       ELSE [seq |-> EverytimeWithStart(start, self.step), reads |-> 2]

AtCall(when) == [op |-> "at", arg |-> when]

\* The value of an expression evaluated when the clock is now, at() being
\* the first call on a DayWithoutStart if it is there at all; and the number
\* of calls of dayjs() made: the constructors of the sequences make none.
BuildAt(rec, now) ==
    IF rec.ops # <<>> /\ Head(rec.ops).op = "at"
    THEN LET a == At(rec.base, Head(rec.ops).arg, now)
         IN [seq |-> IF a.seq.cls = "Error" THEN a.seq
                     ELSE ApplyOps(a.seq, Tail(rec.ops)),
             reads |-> a.reads]
    ELSE [seq |-> Build(rec), reads |-> 0]


\* ------------------------------------------------------------ state
VARIABLES
    clock,      \* dayjs(): the wall clock
    blocked,    \* the one thread is inside a next() that never returns
    recipe,     \* run r: the expression handed to do / schedule
    status,     \* run r: "new", "threw", "running", "ended", "failed"
    uses,       \* run r: "none", "own" (its own iterator) or "shared"
    own,        \* run r: the iterator schedule opened for it
    sharedIt,   \* the state of the caller's iterator object
    timers,     \* run r: the pending setTimeout timers
    inflight,   \* run r: the invocations of the action not settled yet
    pulled,     \* run r: the points scheduleIterator took, in order
    invoked,    \* run r: the points the action was invoked for, in order
    lastDone,   \* run r: start and settle time of the last settled invocation
    unhandled,  \* the runs whose action failed with nothing to catch the error
    exited,     \* the host ended the process on an unhandled rejection
    pRecipe, pStatus, pSeq, pIt, pOut, pUps, pEvals, pUpDone,
    pOpenedAt, pFirstAt,  \* a caller iterating a sequence by hand (below)
    pBuiltAt,   \* the clock value when the caller's expression was evaluated
    pReads,     \* the calls of dayjs() made while it was evaluated
    qStatus,    \* a second consumer: "none", "derived", "threw", "open", "done"
    qSeq,       \* the sequence it derived from pSeq, then the one it iterates
    qIt, qOut, qOpenedAt, qFirstAt  \* its iterator, as pIt, pOut, ...

driverVars == <<blocked, recipe, status, uses, own, sharedIt, timers, inflight,
                pulled, invoked, lastDone, unhandled, exited>>
atVars == <<pBuiltAt, pReads>>
pairVars == <<qStatus, qSeq, qIt, qOut, qOpenedAt, qFirstAt>>
probeVars == <<pRecipe, pStatus, pSeq, pIt, pOut, pUps, pEvals, pUpDone,
               pOpenedAt, pFirstAt, atVars, pairVars>>
vars == <<clock, driverVars, probeVars>>

Runs == {1, 2}
NoIterator == [cls |-> "none"]
NoRecipe == Recipe(NoIterator, <<>>)

\* What the callers of the model hand to do / schedule.
Bases ==
    {EverytimeWithoutStart(s) : s \in Steps}
    \cup {EverytimeWithStart(a, s) : a \in {0, 1}, s \in Steps}

DriverOps ==
    {<<>>}
    \cup {<<Take(n)>> : n \in TakeArgs}
    \cup {<<Filter(p)>> : p \in Predicates}
    \cup {<<Map(f)>> : f \in Transforms}
    \cup {<<Filter("lt2"), Take(n)>> : n \in TakeArgs}
    \cup {<<Map("mirror"), Take(n)>> : n \in TakeArgs}

Arrays == {ArrayOf(<<>>), ArrayOf(<<1>>), ArrayOf(<<2, 0>>), ArrayOf(<<1, 1, 3>>)}

DriverRecipes ==
    {Recipe(b, ops) : b \in Bases, ops \in DriverOps}
    \cup {Recipe(a, <<>>) : a \in Arrays}
    \cup {Recipe(IteratorObject, <<>>)}

\* With two runs: one sequence of each kind.
TwoRecipes ==
    {Recipe(EverytimeWithoutStart(1), <<>>),
     Recipe(EverytimeWithStart(0, 1), <<Take(Number(2, 1))>>),
     Recipe(EverytimeWithStart(0, 1), <<Filter("lt2"), Take(Number(1, 1))>>),
     Recipe(ArrayOf(<<2, 0>>), <<>>),
     Recipe(IteratorObject, <<>>)}

DriverInit ==
    /\ blocked = FALSE
    /\ recipe = [r \in Runs |-> NoRecipe]
    /\ status = [r \in Runs |-> "new"]
    /\ uses = [r \in Runs |-> "none"]
    /\ own = [r \in Runs |-> NoIterator]
    /\ sharedIt = OpenIterator(ArrayOf(SharedItems), 0)
    /\ timers = [r \in Runs |-> <<>>]
    /\ inflight = [r \in Runs |-> <<>>]
    /\ pulled = [r \in Runs |-> <<>>]
    /\ invoked = [r \in Runs |-> <<>>]
    /\ lastDone = [r \in Runs |-> <<>>]
    /\ unhandled = {}
    /\ exited = FALSE

ProbeIdle ==
    /\ pRecipe = NoRecipe
    /\ pStatus = "idle"
    /\ pSeq = NoIterator
    /\ pIt = NoIterator
    /\ pOut = <<>>
    /\ pUps = <<>>
    /\ pEvals = <<>>
    /\ pUpDone = FALSE
    /\ pOpenedAt = 0
    /\ pFirstAt = -1
    /\ pBuiltAt = 0
    /\ pReads = 0
    /\ qStatus = "none"
    /\ qSeq = NoIterator
    /\ qIt = NoIterator
    /\ qOut = <<>>
    /\ qOpenedAt = 0
    /\ qFirstAt = -1

Init == clock = 0 /\ DriverInit /\ ProbeIdle

\* ----------------------------------------------------- the driver
\* A faulty variant of UsesShared: schedule keeps one iterator for all runs.
UsesSharedAlways(seq) == TRUE

\* timesteps[Symbol.iterator]() in schedule: an iterator object returns
\* itself, every other iterable a new iterator.
UsesShared(seq) == seq.cls = "IteratorObject"

\* A faulty variant of TimeoutDelay: the timer does not wait (setTimeout is
\* called without its delay argument).
TimeoutDelayNone(diff) == 0

\* The wait of setTimeout(callback, diff): a negative delay is no delay.
TimeoutDelay(diff) == IF diff < 0 THEN 0 ELSE diff

RemoveAt(q, k) == [j \in 1..(Len(q) - 1) |-> IF j < k THEN q[j] ELSE q[j + 1]]

\* A faulty variant of ScheduleIterator: a point already in the past gets no
\* timer (if(diff >= 0) setTimeout(...)).
ScheduleIteratorSkipsOverdue(r, it, shared, fl) ==
    LET res == IteratorNext(it, clock)
        now == clock
        diff == res.value - now
    IN /\ res.hang \/ res.done \/ Len(pulled[r]) < MaxPulls
       /\ IF shared
          THEN sharedIt' = res.it /\ own' = own
          ELSE own' = [own EXCEPT ![r] = res.it] /\ sharedIt' = sharedIt
       /\ blocked' = res.hang
       /\ inflight' = [inflight EXCEPT ![r] = fl]
       /\ invoked' = invoked
       /\ IF res.hang
          THEN /\ status' = [status EXCEPT ![r] = "running"]
               /\ UNCHANGED <<timers, pulled>>
          ELSE IF res.done
          THEN /\ status' = [status EXCEPT ![r] = "ended"]
               /\ UNCHANGED <<timers, pulled>>
          ELSE /\ status' = [status EXCEPT ![r] = "running"]
               /\ timers' = [timers EXCEPT ![r] =
                     IF diff < 0 THEN @
                     ELSE Append(@, [point |-> res.value, armedAt |-> now,
                                     delay |-> diff])]
               /\ pulled' = [pulled EXCEPT ![r] = Append(@, res.value)]

\* A faulty variant of ScheduleIterator: a point that is already due is
\* served at once, by calling action() instead of arming a timer.
ScheduleIteratorCallsWhenDue(r, it, shared, fl) ==
    LET res == IteratorNext(it, clock)
        now == clock
        diff == res.value - now
        direct == ~res.hang /\ ~res.done /\ diff <= 0
    IN /\ res.hang \/ res.done \/ Len(pulled[r]) < MaxPulls
       /\ IF shared
          THEN sharedIt' = res.it /\ own' = own
          ELSE own' = [own EXCEPT ![r] = res.it] /\ sharedIt' = sharedIt
       /\ blocked' = res.hang
       /\ inflight' = [inflight EXCEPT ![r] =
             IF direct
             THEN Append(fl, [point |-> res.value, startedAt |-> now])
             ELSE fl]
       /\ invoked' = [invoked EXCEPT ![r] =
             IF direct THEN Append(@, res.value) ELSE @]
       /\ IF res.hang
          THEN /\ status' = [status EXCEPT ![r] = "running"]
               /\ UNCHANGED <<timers, pulled>>
          ELSE IF res.done
          THEN /\ status' = [status EXCEPT ![r] = "ended"]
               /\ UNCHANGED <<timers, pulled>>
          ELSE /\ status' = [status EXCEPT ![r] = "running"]
               /\ timers' = [timers EXCEPT ![r] =
                     IF direct THEN @
                     ELSE Append(@, [point |-> res.value, armedAt |-> now,
                                     delay |-> diff])]
               /\ pulled' = [pulled EXCEPT ![r] = Append(@, res.value)]

\* A faulty variant of ScheduleIterator: a point that is already due is
\* waited for and served in a loop that does not return to the scheduler of
\* the host (while(dayjs() < next) {}; await action() with no timer).
ScheduleIteratorSpins(r, it, shared, fl) ==
    LET res == IteratorNext(it, clock)
        now == clock
        diff == res.value - now
        spins == ~res.hang /\ ~res.done /\ diff <= 0
    IN /\ res.hang \/ res.done \/ Len(pulled[r]) < MaxPulls
       /\ IF shared
          THEN sharedIt' = res.it /\ own' = own
          ELSE own' = [own EXCEPT ![r] = res.it] /\ sharedIt' = sharedIt
       /\ blocked' = (res.hang \/ spins)
       /\ inflight' = [inflight EXCEPT ![r] = fl]
       /\ invoked' = invoked
       /\ IF res.hang
          THEN /\ status' = [status EXCEPT ![r] = "running"]
               /\ UNCHANGED <<timers, pulled>>
          ELSE IF res.done
          THEN /\ status' = [status EXCEPT ![r] = "ended"]
               /\ UNCHANGED <<timers, pulled>>
          ELSE /\ status' = [status EXCEPT ![r] = "running"]
               /\ timers' = [timers EXCEPT ![r] =
                     IF spins THEN @
                     ELSE Append(@, [point |-> res.value, armedAt |-> now,
                                     delay |-> diff])]
               /\ pulled' = [pulled EXCEPT ![r] = Append(@, res.value)]

\* scheduleIterator(action, timesteps) for run r, whose iterator is in state
\* it: take the next point; unless done, arm one timer for point - now.
\* fl is what is left of the run's unsettled invocations; the function starts
\* none.
ScheduleIterator(r, it, shared, fl) ==
    LET res == IteratorNext(it, clock)
        now == clock
        diff == res.value - now
    IN /\ res.hang \/ res.done \/ Len(pulled[r]) < MaxPulls
       /\ IF shared
          THEN sharedIt' = res.it /\ own' = own
          ELSE own' = [own EXCEPT ![r] = res.it] /\ sharedIt' = sharedIt
       /\ blocked' = res.hang
       /\ inflight' = [inflight EXCEPT ![r] = fl]
       /\ invoked' = invoked
       /\ IF res.hang
          THEN /\ status' = [status EXCEPT ![r] = "running"]
               /\ UNCHANGED <<timers, pulled>>
          ELSE IF res.done
          THEN /\ status' = [status EXCEPT ![r] = "ended"]
               /\ UNCHANGED <<timers, pulled>>
          ELSE /\ status' = [status EXCEPT ![r] = "running"]
               /\ timers' = [timers EXCEPT ![r] =
                     Append(@, [point |-> res.value, armedAt |-> now,
                                delay |-> diff])]
               /\ pulled' = [pulled EXCEPT ![r] = Append(@, res.value)]

\* seq.do(action) / schedule(seq)(action) for run r, seq written as one of
\* recipes. The expression that builds seq may throw; then do / schedule is
\* never reached.
Start(r, recipes) ==
    /\ ~blocked /\ ~exited
    /\ status[r] = "new"
    /\ \E rec \in recipes :
        LET seq == Build(rec)
        IN /\ recipe' = [recipe EXCEPT ![r] = rec]
           /\ IF seq.cls = "Error"
              THEN /\ status' = [status EXCEPT ![r] = "threw"]
                   /\ UNCHANGED <<blocked, uses, own, sharedIt, timers, pulled,
                                  inflight, invoked>>
              ELSE /\ uses' = [uses EXCEPT ![r] =
                         IF UsesShared(seq) THEN "shared" ELSE "own"]
                   /\ ScheduleIterator(r,
                         IF UsesShared(seq) THEN sharedIt
                         ELSE OpenIterator(seq, clock),
                         UsesShared(seq), inflight[r])
    /\ UNCHANGED <<clock, lastDone, unhandled, exited, probeVars>>

\* A faulty variant of TimerFire: the await is missing, so the callback
\* calls scheduleIterator as soon as action() has returned its promise.
TimerFireWithoutAwait(r) ==
    /\ ~blocked /\ ~exited
    /\ \E k \in 1..Len(timers[r]) :
        /\ clock >= timers[r][k].armedAt + TimeoutDelay(timers[r][k].delay)
        /\ LET res == IteratorNext(
                        IF uses[r] = "shared" THEN sharedIt ELSE own[r], clock)
           IN /\ ~res.hang /\ ~res.done /\ Len(pulled[r]) < MaxPulls
              /\ IF uses[r] = "shared"
                 THEN sharedIt' = res.it /\ own' = own
                 ELSE own' = [own EXCEPT ![r] = res.it] /\ sharedIt' = sharedIt
              /\ timers' = [timers EXCEPT ![r] =
                    Append(RemoveAt(@, k),
                           [point |-> res.value, armedAt |-> clock,
                            delay |-> res.value - clock])]
              /\ pulled' = [pulled EXCEPT ![r] = Append(@, res.value)]
        /\ inflight' = [inflight EXCEPT ![r] =
              Append(@, [point |-> timers[r][k].point, startedAt |-> clock])]
        /\ invoked' = [invoked EXCEPT ![r] = Append(@, timers[r][k].point)]
    /\ UNCHANGED <<clock, blocked, recipe, status, uses, lastDone, unhandled,
                   exited, probeVars>>

\* A timer of run r fires: the callback calls action() and awaits it.
TimerFire(r) ==
    /\ ~blocked /\ ~exited
    /\ \E k \in 1..Len(timers[r]) :
        /\ clock >= timers[r][k].armedAt + TimeoutDelay(timers[r][k].delay)
        /\ timers' = [timers EXCEPT ![r] = RemoveAt(@, k)]
        /\ inflight' = [inflight EXCEPT ![r] =
              Append(@, [point |-> timers[r][k].point, startedAt |-> clock])]
        /\ invoked' = [invoked EXCEPT ![r] = Append(@, timers[r][k].point)]
    /\ UNCHANGED <<clock, blocked, recipe, status, uses, own, sharedIt, pulled,
                   lastDone, unhandled, exited, probeVars>>

\* A faulty variant of ActionResolves: the callback asks the sequence for an
\* iterator again instead of going on with the one of the run.
ActionResolvesReopens(r) ==
    /\ ~blocked /\ ~exited
    /\ \E k \in 1..Len(inflight[r]) :
        /\ lastDone' = [lastDone EXCEPT ![r] =
              <<[startedAt |-> inflight[r][k].startedAt, settledAt |-> clock]>>]
        /\ ScheduleIterator(r,
              IF uses[r] = "shared" THEN sharedIt
              ELSE OpenIterator(Build(recipe[r]), clock),
              uses[r] = "shared", RemoveAt(inflight[r], k))
    /\ UNCHANGED <<clock, recipe, uses, unhandled, exited, probeVars>>

\* The promise of an invocation resolves: the callback goes on to
\* scheduleIterator(action, timesteps) with the run's iterator.
ActionResolves(r) ==
    /\ ~blocked /\ ~exited
    /\ \E k \in 1..Len(inflight[r]) :
        /\ lastDone' = [lastDone EXCEPT ![r] =
              <<[startedAt |-> inflight[r][k].startedAt, settledAt |-> clock]>>]
        /\ ScheduleIterator(r,
              IF uses[r] = "shared" THEN sharedIt ELSE own[r],
              uses[r] = "shared", RemoveAt(inflight[r], k))
    /\ UNCHANGED <<clock, recipe, uses, unhandled, exited, probeVars>>

\* A variant of ActionRejects with a failure channel: the callback catches
\* the error and hands it to a handler of the caller.
ActionRejectsCaught(r) ==
    /\ ~blocked /\ ~exited
    /\ \E k \in 1..Len(inflight[r]) :
        /\ inflight' = [inflight EXCEPT ![r] = RemoveAt(@, k)]
        /\ lastDone' = [lastDone EXCEPT ![r] =
              <<[startedAt |-> inflight[r][k].startedAt, settledAt |-> clock]>>]
    /\ status' = [status EXCEPT ![r] = "failed"]
    /\ UNCHANGED <<clock, blocked, recipe, uses, own, sharedIt, timers, pulled,
                   invoked, unhandled, exited, probeVars>>

\* The promise rejects (or action throws): the await throws inside the
\* callback, scheduleIterator is not reached, nothing catches the error. The
\* promise of the callback rejects with no handler; what an unhandled
\* rejection does is the host's choice: it is reported and the process goes
\* on, or the process ends (the default of Node).
ActionRejects(r) ==
    /\ ~blocked /\ ~exited
    /\ \E k \in 1..Len(inflight[r]) :
        /\ inflight' = [inflight EXCEPT ![r] = RemoveAt(@, k)]
        /\ lastDone' = [lastDone EXCEPT ![r] =
              <<[startedAt |-> inflight[r][k].startedAt, settledAt |-> clock]>>]
    /\ status' = [status EXCEPT ![r] = "failed"]
    /\ unhandled' = unhandled \cup {r}
    /\ \E ends \in BOOLEAN : exited' = ends
    /\ UNCHANGED <<clock, blocked, recipe, uses, own, sharedIt, timers, pulled,
                   invoked, probeVars>>

\* Time passes.
Tick ==
    /\ ~blocked /\ ~exited
    /\ clock < MaxClock
    /\ clock' = clock + 1
    /\ UNCHANGED <<driverVars, probeVars>>

\* One driver run.
Next ==
    \/ Start(1, DriverRecipes)
    \/ TimerFire(1)
    \/ ActionResolves(1)
    \/ ActionRejects(1)
    \/ Tick

Spec == Init /\ [][Next]_vars

\* Two driver runs in one process; run 1 is the one started first.
StartTwo(r) == (r = 1 \/ status[1] # "new") /\ Start(r, TwoRecipes)

NextTwo ==
    \/ \E r \in Runs : StartTwo(r)
    \/ \E r \in Runs : TimerFire(r)
    \/ \E r \in Runs : ActionResolves(r)
    \/ \E r \in Runs : ActionRejects(r)
    \/ Tick

SpecTwo == Init /\ [][NextTwo]_vars

\* Two driver runs on sequences that never end, with actions that resolve, in
\* a host that runs every due timer callback and every continuation of a
\* resolved promise, while time passes.
FairRecipes ==
    {Recipe(EverytimeWithoutStart(0), <<>>),
     Recipe(EverytimeWithStart(0, 1), <<>>)}

StartFair(r) == (r = 1 \/ status[1] # "new") /\ Start(r, FairRecipes)

\* Time passes, for a shorter while.
TickShort == clock < MaxShortClock /\ Tick

NextFair ==
    \/ \E r \in Runs : StartFair(r)
    \/ \E r \in Runs : TimerFire(r)
    \/ \E r \in Runs : ActionResolves(r)
    \/ TickShort

SpecFair ==
    /\ Init
    /\ [][NextFair]_vars
    /\ \A r \in Runs : WF_vars(TimerFire(r)) /\ WF_vars(ActionResolves(r))
    /\ WF_vars(TickShort)


\* ------------------------------------- a caller iterating a sequence by hand
\* const seq = <recipe>; const it = seq[Symbol.iterator](); it.next(); ...
AllOps ==
    {Filter(p) : p \in Predicates} \cup {Map(f) : f \in Transforms}
    \cup {Take(n) : n \in TakeArgs}

ProbeRecipes ==
    {Recipe(b, ops) : b \in Bases,
        ops \in {<<>>} \cup {<<c>> : c \in AllOps}
                \cup {<<c, d>> : c \in AllOps, d \in AllOps}}

\* The expression is evaluated.
PBuild ==
    /\ pStatus = "idle"
    /\ \E rec \in ProbeRecipes :
        LET seq == Build(rec)
        IN /\ pRecipe' = rec
           /\ IF seq.cls = "Error"
              THEN pStatus' = "threw" /\ pSeq' = pSeq
              ELSE pStatus' = "built" /\ pSeq' = seq
    /\ UNCHANGED <<clock, driverVars, pIt, pOut, pUps, pEvals, pUpDone,
                   pOpenedAt, pFirstAt, atVars, pairVars>>

\* seq[Symbol.iterator]()
POpen ==
    /\ pStatus = "built"
    /\ pIt' = OpenIterator(pSeq, clock)
    /\ pOpenedAt' = clock
    /\ pStatus' = "open"
    /\ UNCHANGED <<clock, driverVars, pRecipe, pSeq, pOut, pUps, pEvals,
                   pUpDone, pFirstAt, atVars, pairVars>>

\* it.next()
PNext ==
    /\ pStatus \in {"open", "done"}
    /\ LET res == IteratorNext(pIt, clock)
       IN /\ res.hang \/ res.done \/ Len(pOut) < MaxPulls
          /\ pIt' = res.it
          /\ pOut' = IF res.hang \/ res.done THEN pOut
                     ELSE Append(pOut, res.value)
          /\ pUps' = pUps \o res.ups
          /\ pEvals' = pEvals \o res.evals
          /\ pUpDone' = (pUpDone \/ res.upDone)
          /\ pStatus' = IF res.hang THEN "hang"
                        ELSE IF res.done THEN "done" ELSE "open"
    /\ pFirstAt' = IF pFirstAt = -1 THEN clock ELSE pFirstAt
    /\ UNCHANGED <<clock, driverVars, pRecipe, pSeq, pOpenedAt, atVars,
                   pairVars>>

NextIter == PBuild \/ POpen \/ PNext \/ Tick

SpecIter == Init /\ [][NextIter]_vars

\* ------------------------------------- two consumers of one sequence
\* const S = <recipe>; one consumer iterates S; the other calls combinators
\* on S and iterates what the last call returned, or S itself.
PairRecipes ==
    {Recipe(b, ops) :
        b \in {EverytimeWithoutStart(s) : s \in Steps}
              \cup {EverytimeWithStart(1, 1)},
        ops \in {<<>>, <<Filter("always")>>, <<Map("plus1")>>,
                 <<Take(Number(2, 1))>>,
                 <<Map("mirror"), Take(Number(1, 1))>>}}

PairOps ==
    {Filter("always"), Map("plus1"), Take(Number(1, 1)), Take(Number(-1, 1)),
     Take(Number(3, 2)), StartingAt(1)}

\* A variant of CombinatorCall that works in place: the receiver becomes
\* the sequence returned.
CombinatorCallInPlace(seq, c) ==
    LET made == ApplyOp(seq, c)
    IN [self |-> IF made.cls = "Error" THEN seq ELSE made, result |-> made]

\* seq.filter(p) / seq.map(f) / seq.take(n) / seq.startingAt(start) as a
\* method call: the receiver after the call, and the result (or error). The
\* methods and the constructors they call assign to the new object only.
CombinatorCall(seq, c) == [self |-> seq, result |-> ApplyOp(seq, c)]

PBuildPair ==
    /\ pStatus = "idle"
    /\ \E rec \in PairRecipes :
        /\ pRecipe' = rec
        /\ pSeq' = Build(rec)
        /\ pStatus' = "built"
    /\ UNCHANGED <<clock, driverVars, pIt, pOut, pUps, pEvals, pUpDone,
                   pOpenedAt, pFirstAt, atVars, pairVars>>

\* The second consumer calls a combinator on S.
QDerive ==
    /\ pStatus \in {"built", "open", "done"}
    /\ qStatus \in {"none", "derived", "threw"}
    /\ \E c \in PairOps :
        /\ c.op = "startingAt" => pSeq.cls = "EverytimeWithoutStart"
        /\ LET call == CombinatorCall(pSeq, c)
           IN /\ pSeq' = call.self
              /\ IF call.result.cls = "Error"
                 THEN qStatus' = "threw" /\ qSeq' = NoIterator
                 ELSE qStatus' = "derived" /\ qSeq' = call.result
    /\ UNCHANGED <<clock, driverVars, pRecipe, pStatus, pIt, pOut, pUps, pEvals,
                   pUpDone, pOpenedAt, pFirstAt, atVars, qIt, qOut, qOpenedAt,
                   qFirstAt>>

\* A faulty variant of QOpen: a traversal of S that is under way is resumed.
QOpenResumes ==
    /\ pStatus \in {"built", "open", "done"}
    /\ qStatus \in {"none", "derived", "threw"}
    /\ LET seq == IF qStatus = "derived" THEN qSeq ELSE pSeq
       IN /\ qSeq' = seq
          /\ qIt' = IF seq = pSeq /\ pStatus = "open" THEN pIt
                    ELSE OpenIterator(seq, clock)
    /\ qOpenedAt' = clock
    /\ qStatus' = "open"
    /\ UNCHANGED <<clock, driverVars, pRecipe, pStatus, pSeq, pIt, pOut, pUps,
                   pEvals, pUpDone, pOpenedAt, pFirstAt, atVars, qOut,
                   qFirstAt>>

\* The second consumer's seq[Symbol.iterator](), on the sequence it derived
\* last, or on S itself.
QOpen ==
    /\ pStatus \in {"built", "open", "done"}
    /\ qStatus \in {"none", "derived", "threw"}
    /\ LET seq == IF qStatus = "derived" THEN qSeq ELSE pSeq
       IN /\ qSeq' = seq
          /\ qIt' = OpenIterator(seq, clock)
    /\ qOpenedAt' = clock
    /\ qStatus' = "open"
    /\ UNCHANGED <<clock, driverVars, pRecipe, pStatus, pSeq, pIt, pOut, pUps,
                   pEvals, pUpDone, pOpenedAt, pFirstAt, atVars, qOut,
                   qFirstAt>>

\* The second consumer's it.next()
QNext ==
    /\ qStatus \in {"open", "done"}
    /\ LET res == IteratorNext(qIt, clock)
       IN /\ ~res.hang
          /\ res.done \/ Len(qOut) < MaxPulls
          /\ qIt' = res.it
          /\ qOut' = IF res.done THEN qOut ELSE Append(qOut, res.value)
          /\ qStatus' = IF res.done THEN "done" ELSE "open"
    /\ qFirstAt' = IF qFirstAt = -1 THEN clock ELSE qFirstAt
    /\ UNCHANGED <<clock, driverVars, pRecipe, pStatus, pSeq, pIt, pOut, pUps,
                   pEvals, pUpDone, pOpenedAt, pFirstAt, atVars, qSeq,
                   qOpenedAt>>

NextPair ==
    \/ PBuildPair
    \/ POpen
    \/ PNext
    \/ QDerive
    \/ QOpen
    \/ QNext
    \/ TickShort

SpecPair == Init /\ [][NextPair]_vars

\* ------------------------------------- a caller of at(), on real instants
\* const seq = every.day.at(when)...; later seq[Symbol.iterator](), next()
AtChars == {"0", "2", "4", "6", ":", "a"}
WhenStrings == UNION {[1..n -> AtChars] : n \in 0..MaxWhenLen}

\* Instants around 2:00 of day 0, late on day 0 and on day 1.
AtClocks ==
    {0, 2 * HOURS - 1, 2 * HOURS, 2 * HOURS + 1,
     22 * HOURS + 46 * MINUTES + 1, DAYS + 5 * HOURS + 5 * MINUTES}

AtRecipes ==
    {Recipe(DayWithoutStart(1 * DAYS), <<AtCall(w)>>) : w \in WhenStrings}
    \cup {Recipe(DayWithoutStart(OTHER_ * DAYS), <<AtCall(w)>> \o t) :
             w \in {<<"2", ":", "0", "0">>, <<"2", "2", ":", "4", "6">>,
                    <<"2", "4", ":", "0", "0">>},
             t \in {<<>>, <<Take(Number(1, 1))>>, <<Take(Number(-1, 1))>>,
                    <<Filter("even")>>, <<Map("plus1")>>}}
    \cup {Recipe(EverytimeWithoutStart(1 * HOURS), t) :
             t \in {<<>>, <<StartingAt(DAYS)>>, <<Take(Number(1, 1))>>,
                    <<Take(Number(3, 2))>>, <<Filter("even")>>,
                    <<Map("plus1")>>,
                    <<StartingAt(2 * HOURS), Filter("always")>>}}

InitAt == clock \in AtClocks /\ DriverInit /\ ProbeIdle

\* The expression is evaluated.
PBuildAt ==
    /\ pStatus = "idle"
    /\ \E rec \in AtRecipes :
        LET b == BuildAt(rec, clock)
        IN /\ pRecipe' = rec
           /\ pReads' = b.reads
           /\ IF b.seq.cls = "Error"
              THEN pStatus' = "threw" /\ pSeq' = pSeq
              ELSE pStatus' = "built" /\ pSeq' = b.seq
    /\ pBuiltAt' = clock
    /\ UNCHANGED <<clock, driverVars, pIt, pOut, pUps, pEvals, pUpDone,
                   pOpenedAt, pFirstAt, pairVars>>

\* Time passes, to a later one of the instants.
TickAt ==
    /\ ~blocked /\ ~exited
    /\ \E t \in AtClocks : t > clock /\ clock' = t
    /\ UNCHANGED <<driverVars, probeVars>>

NextAt == PBuildAt \/ POpen \/ PNext \/ TickAt

SpecAt == InitAt /\ [][NextAt]_vars


\* ------------------------------------------------------------ properties
IsPrefix(a, b) == Len(a) <= Len(b) /\ \A i \in 1..Len(a) : a[i] = b[i]

TimerPoints(r) == [k \in 1..Len(timers[r]) |-> timers[r][k].point]

IsPeriodic(seq) == seq.cls \in {"EverytimeWithoutStart", "EverytimeWithStart"}

\* At most one invocation of a run is unsettled.
C1_AtMostOneInFlight == \A r \in Runs : Len(inflight[r]) <= 1

\* A step that starts an invocation finds none unsettled, and is at least as
\* long after the start of the previous one as that one took to settle.
C1_StartsAfterSettle ==
    \A r \in Runs :
        invoked'[r] # invoked[r] =>
            /\ inflight[r] = <<>>
            /\ lastDone[r] # <<>> =>
                  clock' - lastDone[r][1].startedAt
                     >= lastDone[r][1].settledAt - lastDone[r][1].startedAt

\* C1: within a run, an invocation of the action starts only when the
\* previous one has settled: at most one invocation is in progress in every
\* state, and the time from the start of an invocation to the start of the
\* next is at least the time the earlier one took to settle.
C1_NonOverlap == [](C1_AtMostOneInFlight) /\ [][C1_StartsAfterSettle]_vars

\* A second invocation has started after a first one that took longer than
\* the step of the schedule.
C1_Witness ==
    /\ recipe[1] = Recipe(EverytimeWithoutStart(1), <<>>)
    /\ Len(invoked[1]) = 2
    /\ Len(inflight[1]) = 1
    /\ lastDone[1] # <<>>
    /\ lastDone[1][1].settledAt - lastDone[1][1].startedAt > 1

\* The finite sequences of C2: take(n) of a periodic sequence, or an array.
IsFiniteRecipe(rec) ==
    \/ rec.base.cls = "Array" /\ rec.ops = <<>>
    \/ /\ IsPeriodic(rec.base)
       /\ Len(rec.ops) = 1
       /\ rec.ops[1].op = "take"
       /\ rec.ops[1].arg.den = 1
       /\ rec.ops[1].arg.num >= 0

\* Their points, with anchor the first point of a sequence that starts "now".
FinitePoints(rec, first) ==
    IF rec.base.cls = "Array" THEN rec.base.items
    ELSE LET a == IF rec.base.cls = "EverytimeWithStart"
                  THEN rec.base.start ELSE first
         IN [k \in 1..rec.ops[1].arg.num |-> a + (k - 1) * rec.base.step]

FirstPulled(r) == IF pulled[r] = <<>> THEN 0 ELSE pulled[r][1]

\* The points taken and served are the first points of the sequence; a run
\* that goes on has one timer or invocation outstanding; a run that ended
\* has served every point and has nothing outstanding.
C2_Counts ==
    \A r \in Runs :
        (IsFiniteRecipe(recipe[r]) /\ status[r] \in {"running", "ended"}) =>
            LET points == FinitePoints(recipe[r], FirstPulled(r))
            IN /\ IsPrefix(pulled[r], points)
               /\ IsPrefix(invoked[r], pulled[r])
               /\ status[r] = "running" =>
                     Len(timers[r]) + Len(inflight[r]) = 1
               /\ status[r] = "ended" =>
                     /\ invoked[r] = points
                     /\ timers[r] = <<>>
                     /\ inflight[r] = <<>>

\* An ended run stays as it is; a sequence from "now" starts at the clock
\* value of the starting call.
C2_StaysEnded ==
    \A r \in Runs :
        /\ status[r] = "ended" =>
              /\ status'[r] = "ended"
              /\ timers'[r] = <<>>
              /\ invoked'[r] = invoked[r]
              /\ pulled'[r] = pulled[r]
        /\ (status[r] = "new" /\ status'[r] = "running"
            /\ recipe'[r].base.cls = "EverytimeWithoutStart"
            /\ IsFiniteRecipe(recipe'[r])) => pulled'[r] = <<clock>>

\* C2: a run over a finite sequence of n points whose invocations all
\* resolve invokes the action once per point, in order, n times in all, and
\* then has ended: no timer is pending and none is armed again. Until then
\* exactly one timer or invocation is outstanding, so the run does not stop
\* early. For n = 0 the action is never invoked.
C2_FiniteRun == [](C2_Counts) /\ [][C2_StaysEnded]_vars

C2_Witness ==
    /\ recipe[1] = Recipe(EverytimeWithoutStart(MaxStep), <<Take(Number(2, 1))>>)
    /\ status[1] = "ended"
    /\ Len(invoked[1]) = 2

\* C3: a timer is armed with delay point - now, now being the clock read
\* when the point was taken; a timer whose delay is zero or negative can fire
\* at once; and no point is skipped: the points taken are those the action
\* was invoked for followed by the one whose timer is pending.
C3_DelayFromNow ==
    \A r \in Runs :
        /\ \A k \in 1..Len(timers[r]) :
              /\ timers[r][k].delay = timers[r][k].point - timers[r][k].armedAt
              /\ (timers[r][k].delay <= 0 /\ ~blocked) => ENABLED TimerFire(r)
        /\ pulled[r] = invoked[r] \o TimerPoints(r)

\* The action was invoked for 0 after 2: the second point was overdue.
C3_Witness ==
    /\ recipe[1] = Recipe(ArrayOf(<<2, 0>>), <<>>)
    /\ invoked[1] = <<2, 0>>

\* The step that starts a run leaves it without invocation; a step that
\* starts an invocation consumes a timer of a running run and nothing else.
C4_InvokedByTimerOnly ==
    \A r \in Runs :
        /\ status[r] = "new" => (invoked'[r] = <<>> /\ inflight'[r] = <<>>)
        /\ invoked'[r] # invoked[r] =>
              /\ status[r] = "running"
              /\ status'[r] = "running"
              /\ Len(timers'[r]) = Len(timers[r]) - 1
              /\ pulled'[r] = pulled[r]

\* C4: the call that starts a run invokes nothing: an invocation of the
\* action begins only in a step that consumes a timer of a run already
\* started, and that step takes no point and does not change the run's status.
C4_ReturnsImmediately == [][C4_InvokedByTimerOnly]_vars

\* A run was started on a point that is not in the future; the starting call
\* has returned with the timer pending and the action not invoked.
C4_Witness ==
    /\ status[1] = "running"
    /\ Len(timers[1]) = 1
    /\ timers[1][1].delay < 0
    /\ pulled[1] = <<timers[1][1].point>>
    /\ invoked[1] = <<>>

\* The expression calls take with a negative or a non-integral number.
HasBadTake(rec) ==
    \E i \in 1..Len(rec.ops) :
        /\ rec.ops[i].op = "take"
        /\ rec.ops[i].arg.num < 0 \/ rec.ops[i].arg.den # 1

\* C7: take(n) throws when it is called, exactly for a negative or
\* non-integral n; then no sequence exists, no iterator was opened, nothing
\* was taken from one and no timer was armed.
C7_TakeArgument ==
    \A r \in Runs :
        status[r] # "new" =>
            /\ status[r] = "threw" <=> HasBadTake(recipe[r])
            /\ status[r] = "threw" =>
                  /\ uses[r] = "none"
                  /\ own[r] = NoIterator
                  /\ sharedIt = OpenIterator(ArrayOf(SharedItems), 0)
                  /\ pulled[r] = <<>>
                  /\ timers[r] = <<>>
                  /\ invoked[r] = <<>>

C7_Witness ==
    /\ status[1] = "threw"
    /\ recipe[1] = Recipe(EverytimeWithStart(0, 1), <<Take(Number(3, 2))>>)


\* The points a traversal of its own yields: next() on a fresh iterator,
\* opened at clock value now, until it is done (at most k points).
RECURSIVE Drain(_, _, _)
Drain(it, now, k) ==
    IF k = 0 THEN <<>>
    ELSE LET res == IteratorNext(it, now)
         IN IF res.hang \/ res.done THEN <<>>
            ELSE <<res.value>> \o Drain(res.it, now, k - 1)

\* The full traversal of the sequence of run r. A sequence from "now" that
\* has no combinator yields its anchor first. An iterator object yields what
\* it had left when the model starts.
SoloPoints(r) ==
    IF recipe[r].base = IteratorObject THEN SharedItems
    ELSE Drain(OpenIterator(Build(recipe[r]), FirstPulled(r)), FirstPulled(r),
               MaxPulls + 1)

Started(r) == status[r] \in {"running", "ended", "failed"}

\* C5 as stated: whatever sequence two runs are started on, each run takes
\* the points of its own full traversal, from the first one on, and invokes
\* the action once for each point it took.
C5_EveryRunOwnTraversal ==
    \A r \in Runs :
        Started(r) =>
            /\ IsPrefix(pulled[r], SoloPoints(r))
            /\ pulled[r] = invoked[r] \o TimerPoints(r)

\* A run on a sequence that is not an iterator object has its own iterator
\* and takes the points of its own traversal.
C5_OwnTraversal ==
    \A r \in Runs :
        (Started(r) /\ recipe[r].base # IteratorObject) =>
            /\ uses[r] = "own"
            /\ IsPrefix(pulled[r], SoloPoints(r))
            /\ pulled[r] = invoked[r] \o TimerPoints(r)

RunState(r) ==
    <<status[r], own[r], timers[r], inflight[r], pulled[r], invoked[r]>>

\* A step of one run leaves such a run alone.
C5_Frame ==
    \A r \in Runs : \A q \in Runs \ {r} :
        (RunState(q)' # RunState(q) /\ recipe'[r].base # IteratorObject) =>
            RunState(r)' = RunState(r)

\* C5, amended: two runs started on sequences whose [Symbol.iterator]()
\* returns a new iterator at each call (the sequences of the library, arrays)
\* each own their iterator: each takes the points of its own full traversal
\* and invokes the action once per point taken, and a step of one run leaves
\* the iterator, points, timers and invocations of the other unchanged.
C5_FreshIteratorRuns == [](C5_OwnTraversal) /\ [][C5_Frame]_vars

\* Two runs on the same take(2) sequence have both taken both points.
C5_Witness ==
    /\ recipe[1] = Recipe(EverytimeWithStart(0, 1), <<Take(Number(2, 1))>>)
    /\ recipe[2] = recipe[1]
    /\ pulled[1] = <<0, 1>>
    /\ pulled[2] = <<0, 1>>
    /\ status[1] = "running"


\* ------------------------------------- properties of the iterators
PIterating == pStatus \in {"open", "done", "hang"}

\* The last combinator of the expression: it made the sequence iterated.
PTop == IF pRecipe.ops = <<>> THEN "none" ELSE pRecipe.ops[Len(pRecipe.ops)].op

\* The upstream of the iterated sequence, traversed on its own from the
\* clock value at which the generator opened it (its first next()).
PUpstreamAlone(k) ==
    IF pFirstAt = -1 THEN <<>>
    ELSE Drain(OpenIterator(pSeq.upstream, pFirstAt), pFirstAt, k)

Min(a, b) == IF a <= b THEN a ELSE b

\* C6: an iterator of take(n) yields the first points of its upstream, in
\* order, min(n, length of the upstream) of them, and after that reports
\* completion.
C6_TakeYieldsFirstN ==
    (PIterating /\ PTop = "take") =>
        LET n == pSeq.n.num
        IN /\ IsPrefix(pOut, pUps)
           /\ IsPrefix(pUps, PUpstreamAlone(Len(pUps)))
           /\ Len(pOut) <= n
           /\ pStatus = "done" =>
                 Len(pOut) = IF pUpDone THEN Min(n, Len(pUps)) ELSE n
           /\ Len(pOut) = n => pStatus # "hang"

\* C8: an iterator of filter(p) yields exactly the upstream points that
\* satisfy p, in upstream order, and has evaluated p once on each upstream
\* point it took, in that order; it is done only when the upstream is.
C8_FilterYieldsSubsequence ==
    (PIterating /\ PTop = "filter") =>
        LET Test(t) == ApplyPredicate(pSeq.predicate, t)
        IN /\ pOut = SelectSeq(pUps, Test)
           /\ pEvals = pUps
           /\ pUps = PUpstreamAlone(Len(pUps))
           /\ pStatus = "done" => pUpDone

\* Of the upstream points 0, 1, 2 the filter yielded 0 and 2.
C8_Witness ==
    /\ PIterating
    /\ PTop = "filter"
    /\ pSeq.predicate = "even"
    /\ pUps = <<0, 1, 2>>
    /\ pOut = <<0, 2>>

\* C9: an iterator of map(f) yields f(point) for each upstream point, the
\* k-th output for the k-th point, as many outputs as points, also for an f
\* that is not monotonic; it is done exactly when the upstream is.
C9_MapPointwise ==
    (PIterating /\ PTop = "map") =>
        /\ Len(pOut) = Len(pUps)
        /\ \A k \in 1..Len(pOut) : pOut[k] = ApplyTransform(pSeq.f, pUps[k])
        /\ pEvals = pUps
        /\ pUps = PUpstreamAlone(Len(pUps))
        /\ pStatus = "done" <=> pUpDone

\* mirror turned the two points 0, 1 of a finite upstream into 3, 2.
C9_Witness ==
    /\ PIterating
    /\ PTop = "map"
    /\ pSeq.f = "mirror"
    /\ pUps = <<0, 1>>
    /\ pOut = <<3, 2>>
    /\ pStatus = "done"

\* C10: the k-th output (k = 0, 1, ...) of an iterator of a periodic sequence
\* is anchor + k * step, the anchor being the stored start, or the clock
\* value at which the iterator was opened; the iterator is never done.
C10_Periodic ==
    (pStatus # "idle" /\ PTop = "none") =>
        LET anchor == IF pSeq.cls = "EverytimeWithStart"
                      THEN pSeq.start ELSE pOpenedAt
        IN /\ pStatus \in {"built", "open"}
           /\ \A k \in 1..Len(pOut) : pOut[k] = anchor + (k - 1) * pSeq.step
           /\ \A k \in 1..(Len(pOut) - 1) : pOut[k + 1] - pOut[k] = pSeq.step

\* A sequence from now, opened at 1, first read at 2, has yielded 1, 3, 5.
C10_Witness ==
    /\ pSeq = EverytimeWithoutStart(2)
    /\ pOpenedAt = 1
    /\ pFirstAt = 2
    /\ pOut = <<1, 3, 5>>


\* ------------------------------------- more properties of a driver run
\* The iterator a run takes its points from.
IterOf(r) == IF uses[r] = "shared" THEN sharedIt ELSE own[r]

\* A run has at most one timer or invocation outstanding.
C17_OneOutstanding ==
    \A r \in Runs : Len(timers[r]) + Len(inflight[r]) <= 1

\* A point is taken only by the starting call or by the step in which the
\* run's invocation settles, and it is the next point of the iterator the
\* run already has, which moves on by that one next() and by nothing else.
C17_PullsInTurn ==
    \A r \in Runs :
        /\ status[r] # "new" => uses'[r] = uses[r]
        /\ (status[r] = "running" /\ IterOf(r)' # IterOf(r)) =>
              /\ Len(inflight[r]) = 1
              /\ inflight'[r] = <<>>
              /\ IterOf(r)' = IteratorNext(IterOf(r), clock).it
        /\ pulled'[r] # pulled[r] =>
              /\ \/ status[r] = "new"
                 \/ Len(inflight[r]) = 1 /\ inflight'[r] = <<>>
              /\ status[r] = "running" =>
                    pulled'[r] = Append(pulled[r],
                                        IteratorNext(IterOf(r), clock).value)

\* C17: within one driver run the pending timers and the unsettled
\* invocations number at most one together; the iterator is asked for a
\* point only by the starting call or once the previous invocation has
\* settled; and it is the same iterator for the whole run, continued and
\* never opened again.
C17_OneTimerOneIterator == [](C17_OneOutstanding) /\ [][C17_PullsInTurn]_vars

\* A run on a periodic sequence has taken its third point after two settled
\* invocations and waits for that point's timer.
C17_Witness ==
    /\ recipe[1] = Recipe(EverytimeWithStart(0, 1), <<>>)
    /\ pulled[1] = <<0, 1, 2>>
    /\ invoked[1] = <<0, 1>>
    /\ Len(timers[1]) = 1
    /\ inflight[1] = <<>>

\* An invocation starts at or after its point.
C19_StartedWhenDue ==
    \A r \in Runs :
        /\ \A k \in 1..Len(inflight[r]) :
              inflight[r][k].startedAt >= inflight[r][k].point
        /\ IsPrefix(invoked[r], pulled[r])

C19_InvokedInOrder ==
    \A r \in Runs :
        invoked'[r] # invoked[r] =>
            /\ Len(invoked'[r]) = Len(invoked[r]) + 1
            /\ IsPrefix(invoked[r], invoked'[r])
            /\ invoked'[r][Len(invoked'[r])] = pulled[r][Len(invoked'[r])]
            /\ clock >= invoked'[r][Len(invoked'[r])]

\* C19: with a clock that does not go back and timers that fire no earlier
\* than their delay, the invocation for a point p starts at a clock value of
\* at least p, and the invocations of a run come in the order in which the
\* iterator produced their points, whatever the order of the points in time.
C19_NeverEarly == [](C19_StartedWhenDue) /\ [][C19_InvokedInOrder]_vars

\* The points 2, 1 of a mirrored sequence were served in that order, the
\* first of them not before the clock was 2.
C19_Witness ==
    /\ recipe[1] = Recipe(EverytimeWithStart(1, 1),
                          <<Map("mirror"), Take(Number(2, 1))>>)
    /\ invoked[1] = <<2, 1>>
    /\ lastDone[1] # <<>>
    /\ lastDone[1][1].startedAt >= 2

\* C20: an iterator of take(n) asks its upstream for at most n points and
\* is done after its n-th output without asking for another point; take(0)
\* asks for none; so over a filtered infinite sequence it is done after n
\* outputs even when no further upstream point passes the filter.
C20_TakeIsLazy ==
    (PIterating /\ PTop = "take") =>
        /\ Len(pUps) <= pSeq.n.num
        /\ Len(pOut) = pSeq.n.num => pStatus # "hang"


\* ------------------------------------- a failing action
\* Every failure of an action reached a handler of the caller, and the other
\* runs go on.
C18_FailureSurfaced ==
    \A r \in Runs : status[r] = "failed" => (r \notin unhandled /\ ~exited)

\* A failed run has nothing outstanding, and its failure was caught by
\* nothing; only such a failure ends the process.
C18_FailedRun ==
    /\ \A r \in Runs :
          status[r] = "failed" =>
              /\ timers[r] = <<>>
              /\ inflight[r] = <<>>
              /\ r \in unhandled
    /\ exited => unhandled # {}

\* A failed run stays as it is, and the step in which a run fails changes
\* nothing of another run.
C18_StaysFailed ==
    \A r \in Runs :
        /\ status[r] = "failed" =>
              /\ status'[r] = "failed"
              /\ pulled'[r] = pulled[r]
              /\ timers'[r] = timers[r]
              /\ invoked'[r] = invoked[r]
              /\ inflight'[r] = inflight[r]
              /\ r \in unhandled'
        /\ (status[r] # "failed" /\ status'[r] = "failed") =>
              \A q \in Runs \ {r} : RunState(q)' = RunState(q)
        /\ exited => UNCHANGED vars

\* C18, amended: a failing invocation is fatal to its run: the run takes no
\* further point, arms no further timer and never invokes the action again.
\* The driver catches nothing and offers no failure channel: the failure
\* leaves the timer callback as an unhandled rejection. The failing step
\* changes nothing of another run; whether the other runs go on is the
\* host's choice, which may end the process on an unhandled rejection.
C18_FatalAndUnhandled == [](C18_FailedRun) /\ [][C18_StaysFailed]_vars

\* Run 1 has failed in a process that goes on, and run 2 has invoked its
\* action after that.
C18_Witness ==
    /\ status[1] = "failed"
    /\ 1 \in unhandled
    /\ ~exited
    /\ status[2] = "running"
    /\ Len(inflight[2]) = 1
    /\ lastDone[1] # <<>>
    /\ inflight[2][1].startedAt > lastDone[1][1].settledAt


\* ------------------------------------- two runs, neither starving the other
\* An invocation comes out of a timer: the run waited in the scheduler of the
\* host since its previous invocation settled.
C16_TimerBetweenInvocations ==
    \A r \in Runs :
        invoked'[r] # invoked[r] =>
            /\ Len(timers[r]) = 1
            /\ timers'[r] = <<>>
            /\ inflight[r] = <<>>

TwoDigits(n) == <<DigitChars[(n \div 10) + 1], DigitChars[(n % 10) + 1]>>
TimeOfDayForms(h, m) ==
    {TwoDigits(h) \o <<":">> \o TwoDigits(m)}
    \cup (IF h < 10 THEN {<<DigitChars[h + 1], ":">> \o TwoDigits(m)} ELSE {})
ValidTimesOfDay == UNION {TimeOfDayForms(h, m) : h \in 0..23, m \in 0..59}

\* The caller evaluated every.day.at(when), or that with calls after it.
PCalledAt == pStatus # "idle" /\ pRecipe.ops # <<>> /\ pRecipe.ops[1].op = "at"
PWhen == pRecipe.ops[1].arg
PJustAt == PCalledAt /\ Len(pRecipe.ops) = 1

\* The time of day a valid string names, in milliseconds after midnight.
PTimeOfDay ==
    NumberOf(SubSeq(PWhen, 1, Len(PWhen) - 3)) * HOURS
    + NumberOf(SubSeq(PWhen, Len(PWhen) - 1, Len(PWhen))) * MINUTES

\* C13: for a valid time of day h:mm and any clock value now, at("h:mm")
\* returns a sequence with a fixed start and the step of its receiver, the
\* start being today's h:mm if that is not before now and tomorrow's h:mm
\* otherwise: an instant at h:mm, not before now, less than a day after it.
C13_NextOccurrence ==
    (PJustAt /\ PWhen \in ValidTimesOfDay /\ pStatus # "threw") =>
        LET now == pBuiltAt
            today == now - (now % DAYS) + PTimeOfDay
        IN /\ pSeq.cls = "EverytimeWithStart"
           /\ pSeq.step = pRecipe.base.step
           /\ pSeq.start = IF today >= now THEN today ELSE today + DAYS
           /\ pSeq.start >= now
           /\ pSeq.start - now < DAYS
           /\ pSeq.start % DAYS = PTimeOfDay

\* at("2:00") called one millisecond after 2:00 starts at 2:00 of the next
\* day, and goes on in steps of a day.
C13_Witness ==
    /\ PJustAt
    /\ PWhen = <<"2", ":", "0", "0">>
    /\ pBuiltAt = 2 * HOURS + 1
    /\ pRecipe.base.step = DAYS
    /\ pOut = <<DAYS + 2 * HOURS, 2 * DAYS + 2 * HOURS>>

\* C14: at(when) throws, and returns no sequence, exactly when when is not
\* one or two digits, a colon and two digits, or its hours are 24 or more, or
\* its minutes 60 or more; it throws in the call itself, before any
\* iteration.
C14_ParseErrorExactly ==
    PJustAt =>
        /\ pStatus = "threw" <=> PWhen \notin ValidTimesOfDay
        /\ pStatus = "threw" => (pSeq = NoIterator /\ pIt = NoIterator)

\* "24:00" has the form but not the range, and was rejected.
C14_Witness ==
    /\ PJustAt
    /\ PWhen = <<"2", "4", ":", "0", "0">>
    /\ pStatus = "threw"

\* No constructor and no combinator reads the clock or arms a timer.
C12_ConstructionReadsNoClock ==
    pStatus \in {"built", "threw"} =>
        /\ pReads = 0
        /\ \A r \in Runs : timers[r] = <<>>

\* C12, amended: evaluating an expression made of the unit constructors,
\* startingAt, filter, map and take reads no clock; at(timeOfDay) reads the
\* clock in the call itself, when its string is valid, and fixes the start
\* of its sequence then, whenever the sequence is iterated. No constructor
\* or combinator arms a timer or opens an iterator.
C12_OnlyAtReadsClock ==
    pStatus # "idle" =>
        /\ \A r \in Runs : timers[r] = <<>> /\ inflight[r] = <<>>
        /\ pStatus \in {"built", "threw"} => (pIt = NoIterator /\ pOut = <<>>)
        /\ pReads > 0 <=> (PCalledAt /\ PWhen \in ValidTimesOfDay)
        /\ (PJustAt /\ pOut # <<>>) =>
              /\ pOut[1] = pSeq.start
              /\ pOut[1] < pBuiltAt + DAYS

\* at("2:00") was called just before 2:00 of day 0; its sequence, opened on
\* day 1, starts at 2:00 of day 0.
C12_Witness ==
    /\ PJustAt
    /\ PWhen = <<"2", ":", "0", "0">>
    /\ pBuiltAt = 2 * HOURS - 1
    /\ pReads > 0
    /\ pOpenedAt = DAYS + 5 * HOURS + 5 * MINUTES
    /\ pOut # <<>>
    /\ pOut[1] = 2 * HOURS


\* ------------------------------------- properties of two consumers
\* The points of a traversal of seq on its own, its iterator opened at clock
\* value opened and first asked at clock value first.
Alone(seq, opened, first, k) ==
    IF first = -1 THEN <<>> ELSE Drain(OpenIterator(seq, opened), first, k)

QIterating == qStatus \in {"open", "done"}

\* Each of the two iterators yields the points of a traversal of its own; on
\* a sequence from now these start at the clock value of its own opening.
C11_OwnTraversal ==
    /\ pStatus \in {"open", "done"} =>
          /\ pOut = Alone(pSeq, pOpenedAt, pFirstAt, Len(pOut))
          /\ pSeq.cls = "EverytimeWithoutStart" =>
                \A k \in 1..Len(pOut) : pOut[k] = pOpenedAt + (k - 1) * pSeq.step
    /\ QIterating =>
          /\ qOut = Alone(qSeq, qOpenedAt, qFirstAt, Len(qOut))
          /\ qSeq.cls = "EverytimeWithoutStart" =>
                \A k \in 1..Len(qOut) : qOut[k] = qOpenedAt + (k - 1) * qSeq.step

\* A step that opens or advances one iterator leaves the other as it is.
C11_Frame ==
    /\ (pIt' # pIt \/ pOut' # pOut) => (qIt' = qIt /\ qOut' = qOut)
    /\ (qIt' # qIt \/ qOut' # qOut) => (pIt' = pIt /\ pOut' = pOut)

\* C11: every [Symbol.iterator]() of a sequence of the library, whatever its
\* nesting, begins a traversal of its own: two iterators of one sequence
\* from now, opened at different clock values, each start at the clock value
\* of their own opening, and advancing one any number of times leaves the
\* position and the outputs of the other unchanged.
C11_FreshTraversal == [](C11_OwnTraversal) /\ [][C11_Frame]_vars

\* Two iterators of every.<step 1>, opened at 0 and at MaxShortClock: the
\* first has yielded MaxPulls points, the second its own first point.
C11_Witness ==
    /\ pSeq = EverytimeWithoutStart(1)
    /\ qSeq = pSeq
    /\ qStatus = "open"
    /\ pOpenedAt = 0
    /\ qOpenedAt = MaxShortClock
    /\ Len(pOut) = MaxPulls
    /\ qOut = <<MaxShortClock>>

\* Once S is built it is the value its expression made, and an iterator of
\* S yields the points of a traversal of that value.
C15_ReceiverAsBuilt ==
    pStatus \in {"built", "open", "done"} =>
        /\ pSeq = Build(pRecipe)
        /\ pOut = Alone(Build(pRecipe), pOpenedAt, pFirstAt, Len(pOut))

\* No step changes S after it was built; a call that returns a sequence
\* returns another value than S, a call that throws returns none.
C15_ReceiverKept ==
    /\ pStatus # "idle" => pSeq' = pSeq
    /\ (qStatus' = "derived" /\ qSeq' # qSeq) => qSeq' # pSeq
    /\ qStatus' = "threw" => qSeq' = NoIterator

\* C15: filter, map, take and startingAt return a new sequence and leave
\* their receiver as it was: after any number of such calls on a sequence S,
\* a failing take among them, and any number of iterations of S or of the
\* sequences derived from it, an iterator of S yields the points it would
\* have yielded without them.
C15_ReceiverUnchanged == [](C15_ReceiverAsBuilt) /\ [][C15_ReceiverKept]_vars

\* S is a sequence from now; startingAt(1) was called on it and what it
\* returned iterated from 1; S, opened later, still starts at the clock
\* value of its opening.
C15_Witness ==
    /\ pSeq = EverytimeWithoutStart(1)
    /\ qSeq = EverytimeWithStart(1, 1)
    /\ QIterating
    /\ qOut = <<1, 2>>
    /\ pOpenedAt = MaxShortClock
    /\ pOut = <<MaxShortClock, MaxShortClock + 1>>

====
